---- MODULE Spec2Model ----
(***************************************************************************)
(* Model of github.com/pierrre/unlimited-channel: the Channel built by New, *)
(* its worker goroutine (worker.run), the linked-list queue with its node   *)
(* pool, and the caller threads that send, close and receive.               *)
(*                                                                          *)
(* Go channels are modelled by their buffer, their closed flag and the      *)
(* goroutines parked on them.  A caller whose send finds no room parks      *)
(* (ppc = "sending") and is released by the receive that takes its value;   *)
(* a caller whose receive finds nothing parks (cpc = "recv") and is         *)
(* released by the send, or the close, that serves it.  Every channel       *)
(* operation of the worker is one action.                                   *)
(***************************************************************************)
EXTENDS Integers, Sequences, FiniteSets, TLC

\* Largest number of values a caller sends in the general specification.
MaxSend == 3
\* Largest buffer option handed to WithBuffer in the general specification.
MaxBuffer == 2
\* Smallest buffer option handed to WithBuffer (TestWithBufferNegative).
MinBuffer == -1
\* Largest number of calls of the release function after the first one.
MaxAgain == 2
\* Largest value, and largest number of values held, of a queue used alone.
MaxValue == 2
MaxQueue == 3
\* Number of values sent by TestCloseRemaining and TestCloseSendAll.
TestCount == 10

\* The zero value of the element type, and the nil pointer.
Zero == 0
Nil == 0

VARIABLES
    oBuffer,        \* options.buffer, as WithBuffer (or the default) set it
    buffer,         \* New: buffer, cap(c.in) = cap(c.out)
    sendAllOnClose, \* Channel.sendAllOnClose
    inBuf,          \* c.in: buffered values
    inClosed,       \* c.in: closed
    outBuf,         \* c.out: buffered values
    outClosed,      \* c.out: closed
    recvq,          \* c.out: the receivers parked on it, first come first
    pc,             \* worker: position in worker.run
    inValue,        \* worker.run: inValue
    inOpen,         \* worker.run: inOpen
    inReceived,     \* worker.run: inReceived
    outValue,       \* worker.run: outValue
    outValueOK,     \* worker.run: outValueOK
    q,              \* worker.run: q, the queue (head, tail, elemPool, nodes)
    N,              \* caller: number of values it sends before close(in)
    single,         \* caller: one thread sends, closes, then drains (the tests)
    ppc,            \* producer: "idle", "sending" (parked in in <- v), "closed"
    nsent,          \* producer: number of sends started
    accepted,       \* values whose send on c.in has completed, in order
    cpc,            \* consumer: "idle", "recv" (parked in <-out), "closed"
    received,       \* values the consumer received from c.out, in order
    rpc,            \* release: position in Channel.release, "none" before it
    again,          \* release: calls of the release function after the first
    ref,            \* queue used alone: the sequence of values it should hold
    ret,            \* queue used alone: the last operation and what it returned
    panic           \* the runtime panic that ended the program, or "none"

confVars == <<oBuffer, buffer, sendAllOnClose, N, single>>
inVars == <<inBuf, inClosed>>
outVars == <<outBuf, outClosed, recvq>>
workerVars == <<pc, inValue, inOpen, inReceived, outValue, outValueOK, q>>
producerVars == <<ppc, nsent, accepted>>
consumerVars == <<cpc, received>>
queueVars == <<ref, ret>>
vars == <<confVars, inVars, outVars, workerVars, producerVars, consumerVars,
          rpc, again, queueVars, panic>>

----------------------------------------------------------------------------
(* queue.go *)

\* Node identities: one per value a caller can send is more than a queue needs.
NodeIds == 1..(MaxSend + TestCount)

\* A freshly allocated queueElement.
queueElement == [value |-> Zero, next |-> Nil]

\* new(queue[T]): no head, no tail, an empty pool.
newQueue ==
    [head |-> Nil, tail |-> Nil, pool |-> {},
     elem |-> [n \in NodeIds |-> queueElement]]

RECURSIVE chainFrom(_, _, _)
\* The nodes visited from node n by following next, at most k of them.
chainFrom(qq, n, k) ==
    IF n = Nil \/ k = 0 THEN <<>>
    ELSE <<n>> \o chainFrom(qq, qq.elem[n].next, k - 1)

\* The nodes reachable from head, in order.
chain(qq) == chainFrom(qq, qq.head, Cardinality(NodeIds))

\* The values held by the queue, head first.
contents(qq) == [i \in 1..Len(chain(qq)) |-> qq.elem[chain(qq)[i]].value]

\* The identities no live pointer refers to: what an allocation may return.
freeIds(qq) == NodeIds \ ({chain(qq)[i] : i \in 1..Len(chain(qq))} \cup qq.pool)

\* q.elemPool.Get(): some pooled node, or nil (a sync.Pool may always miss).
poolGet(qq) == qq.pool \cup (IF freeIds(qq) = {} THEN {} ELSE {Nil})

\* An enqueue that links the new node in front of the head.
enqueueFront(qq, value, e) ==
    LET newElem == IF e = Nil THEN CHOOSE n \in freeIds(qq) :
                                       \A m \in freeIds(qq) : n <= m
                   ELSE e
    IN [head |-> newElem,
        tail |-> IF qq.tail = Nil THEN newElem ELSE qq.tail,
        pool |-> qq.pool \ {newElem},
        elem |-> [qq.elem EXCEPT ![newElem] = [value |-> value, next |-> qq.head]]]

\* queue.enqueue, with e the result of q.elemPool.Get().
enqueue(qq, value, e) ==
    LET newElem == IF e = Nil THEN CHOOSE n \in freeIds(qq) :
                                       \A m \in freeIds(qq) : n <= m
                   ELSE e
        e0 == IF e = Nil THEN queueElement ELSE qq.elem[newElem]
        elem1 == [qq.elem EXCEPT ![newElem] = [e0 EXCEPT !.value = value]]
        head1 == IF qq.head = Nil THEN newElem ELSE qq.head
        elem2 == IF qq.tail # Nil
                 THEN [elem1 EXCEPT ![qq.tail].next = newElem]
                 ELSE elem1
    IN [head |-> head1, tail |-> newElem, pool |-> qq.pool \ {newElem},
        elem |-> elem2]

\* A dequeue that leaves tail alone when the last node goes.
dequeueKeepsTail(qq) ==
    IF qq.head = Nil
    THEN [q |-> qq, value |-> Zero, ok |-> FALSE]
    ELSE LET oldElem == qq.head
             head1 == qq.elem[oldElem].next
         IN [q |-> [head |-> head1, tail |-> qq.tail,
                    pool |-> qq.pool \cup {oldElem},
                    elem |-> [qq.elem EXCEPT ![oldElem] = queueElement]],
             value |-> qq.elem[oldElem].value, ok |-> TRUE]

\* A dequeue that pools the node with its value and its next link.
dequeueKeepsNode(qq) ==
    IF qq.head = Nil
    THEN [q |-> qq, value |-> Zero, ok |-> FALSE]
    ELSE LET oldElem == qq.head
             head1 == qq.elem[oldElem].next
             tail1 == IF head1 = Nil THEN Nil ELSE qq.tail
         IN [q |-> [head |-> head1, tail |-> tail1,
                    pool |-> qq.pool \cup {oldElem},
                    elem |-> qq.elem],
             value |-> qq.elem[oldElem].value, ok |-> TRUE]

\* A dequeue that reports a value found on an empty queue.
dequeueEmptyFound(qq) ==
    IF qq.head = Nil
    THEN [q |-> qq, value |-> Zero, ok |-> TRUE]
    ELSE LET oldElem == qq.head
             head1 == qq.elem[oldElem].next
             tail1 == IF head1 = Nil THEN Nil ELSE qq.tail
         IN [q |-> [head |-> head1, tail |-> tail1,
                    pool |-> qq.pool \cup {oldElem},
                    elem |-> [qq.elem EXCEPT ![oldElem] = queueElement]],
             value |-> qq.elem[oldElem].value, ok |-> TRUE]

\* queue.dequeue: the queue after the call, the value and the found flag.
dequeue(qq) ==
    IF qq.head = Nil
    THEN [q |-> qq, value |-> Zero, ok |-> FALSE]
    ELSE LET oldElem == qq.head
             head1 == qq.elem[oldElem].next
             tail1 == IF head1 = Nil THEN Nil ELSE qq.tail
         IN [q |-> [head |-> head1, tail |-> tail1,
                    pool |-> qq.pool \cup {oldElem},
                    elem |-> [qq.elem EXCEPT ![oldElem] = queueElement]],
             value |-> qq.elem[oldElem].value, ok |-> TRUE]

\* A pick that reads the tail.
pickTail(qq) ==
    IF qq.head = Nil THEN [value |-> Zero, ok |-> FALSE]
    ELSE [value |-> qq.elem[qq.tail].value, ok |-> TRUE]

\* queue.pick: the head value and the found flag.
pick(qq) ==
    IF qq.head = Nil THEN [value |-> Zero, ok |-> FALSE]
    ELSE [value |-> qq.elem[qq.head].value, ok |-> TRUE]

\* queue.reset: drops head and tail.
reset(qq) == [qq EXCEPT !.head = Nil, !.tail = Nil]

----------------------------------------------------------------------------
(* New *)

\* buffer := max(0, o.buffer)
clampBuffer(b) == IF b > 0 THEN b ELSE 0

\* The state New returns in, for the options o.buffer = b and
\* o.sendAllOnClose = s, and a caller that sends n values.
InitWith(b, s, n, one) ==
    /\ oBuffer = b
    /\ buffer = clampBuffer(b)
    /\ sendAllOnClose = s
    /\ N = n
    /\ single = one
    /\ inBuf = <<>> /\ inClosed = FALSE
    /\ outBuf = <<>> /\ outClosed = FALSE /\ recvq = <<>>
    /\ pc = "top"
    /\ inValue = Zero /\ inOpen = TRUE /\ inReceived = FALSE
    /\ outValue = Zero /\ outValueOK = FALSE
    /\ q = newQueue
    /\ ppc = "idle" /\ nsent = 0 /\ accepted = <<>>
    /\ cpc = "idle" /\ received = <<>>
    /\ rpc = "none"
    /\ again = 0
    /\ ref = <<>>
    /\ ret = [op |-> "none", value |-> Zero, ok |-> FALSE, newElem |-> Nil]
    /\ panic = "none"

\* Any flush policy and any capacity (a negative option is the same channel
\* as 0), with a producer and a consumer on threads of their own.
Init ==
    \E b \in 0..MaxBuffer, s \in BOOLEAN, n \in 0..MaxSend :
        InitWith(b, s, n, FALSE)

\* The callers of the tests: one thread that sends, closes, then drains.
\* TestCloseRemaining and TestCloseSendAll send TestCount values on an
\* unbuffered channel; TestWithBufferNegative passes MinBuffer.
InitTests ==
    \/ \E b \in MinBuffer..MaxBuffer, s \in BOOLEAN, n \in 0..MaxSend :
          InitWith(b, s, n, TRUE)
    \/ \E s \in BOOLEAN : InitWith(0, s, TestCount, TRUE)

\* The program runs until the runtime panics.
running == panic = "none"

----------------------------------------------------------------------------
(* channel operations of the Go runtime, as the program uses them *)

\* A receive on c.in can proceed: a buffered value, a parked sender, or closed.
inReady == Len(inBuf) > 0 \/ ppc = "sending" \/ inClosed

\* The value and the ok flag a receive on c.in yields when it proceeds.
inFront ==
    IF Len(inBuf) > 0 THEN [value |-> Head(inBuf), ok |-> TRUE]
    ELSE IF ppc = "sending" THEN [value |-> nsent, ok |-> TRUE]
    ELSE [value |-> Zero, ok |-> FALSE]

\* What a receive on c.in does to the channel and to a sender parked on it.
inTaken ==
    /\ inReady
    /\ inBuf' = (IF Len(inBuf) > 0
                 THEN (IF ppc = "sending" THEN Append(Tail(inBuf), nsent)
                       ELSE Tail(inBuf))
                 ELSE inBuf)
    /\ accepted' = (IF ppc = "sending" THEN Append(accepted, nsent) ELSE accepted)
    /\ ppc' = (IF ppc = "sending" THEN "idle" ELSE ppc)
    /\ UNCHANGED <<inClosed, nsent>>

\* A send on c.out can proceed: room in the buffer, or a parked receiver.
outReady == Len(outBuf) < buffer \/ recvq # <<>>

\* What a send of v on c.out does: handed to the first parked receiver (the
\* consumer keeps it, release discards it), buffered otherwise.
outGiven(v) ==
    /\ outReady
    /\ IF recvq # <<>>
       THEN /\ recvq' = Tail(recvq)
            /\ received' = (IF Head(recvq) = "consumer" THEN Append(received, v)
                            ELSE received)
            /\ cpc' = (IF Head(recvq) = "consumer" THEN "idle" ELSE cpc)
            /\ rpc' = (IF Head(recvq) = "release" THEN "drainOut" ELSE rpc)
            /\ UNCHANGED outBuf
       ELSE /\ outBuf' = Append(outBuf, v)
            /\ UNCHANGED <<recvq, received, cpc, rpc>>
    /\ UNCHANGED outClosed

----------------------------------------------------------------------------
(* worker.run *)

\* The local variables of worker.run.
locals ==
    [inValue |-> inValue, inOpen |-> inOpen, inReceived |-> inReceived,
     outValue |-> outValue, outValueOK |-> outValueOK, q |-> q]

\* An integration that puts the received value into the output value also
\* when that holds one.
integrateOverwrite(l, e) ==
    IF ~l.inReceived THEN l
    ELSE IF ~l.inOpen THEN [l EXCEPT !.inReceived = FALSE]
    ELSE [l EXCEPT !.inReceived = FALSE, !.outValue = l.inValue,
                   !.outValueOK = TRUE, !.inValue = Zero]

\* Lines 97-108: integrate what the last receive on the input yielded; e is
\* the result of the q.elemPool.Get() that enqueue makes.
integrate(l, e) ==
    IF ~l.inReceived THEN l
    ELSE IF ~l.inOpen THEN [l EXCEPT !.inReceived = FALSE]
    ELSE IF ~l.outValueOK
    THEN [l EXCEPT !.inReceived = FALSE, !.outValue = l.inValue,
                   !.outValueOK = TRUE, !.inValue = Zero]
    ELSE [l EXCEPT !.inReceived = FALSE, !.q = enqueue(l.q, l.inValue, e),
                   !.inValue = Zero]

\* An iteration that leaves the queue alone.
refillSkipped(l) == l

\* Lines 109-111: refill the output value from the queue.
refill(l) ==
    IF l.outValueOK THEN l
    ELSE [l EXCEPT !.outValue = dequeue(l.q).value,
                   !.outValueOK = dequeue(l.q).ok,
                   !.q = dequeue(l.q).q]

\* A worker that returns on a closed input whatever sendAllOnClose says.
nextOpNoFlush(l) ==
    IF ~l.inOpen THEN "return"
    ELSE IF ~l.outValueOK THEN "recv"
    ELSE "trySend"

\* A worker that sends with a blocking send while the input is open.
nextOpBlockingSend(l) ==
    IF ~l.inOpen
    THEN (IF ~l.outValueOK THEN "return"
          ELSE IF ~sendAllOnClose THEN "return"
          ELSE "flush")
    ELSE IF ~l.outValueOK THEN "recv"
    ELSE "flush"

\* A worker that receives again instead of returning on a closed input.
nextOpNoReturn(l) ==
    IF ~l.inOpen
    THEN (IF ~l.outValueOK THEN "recv"
          ELSE IF ~sendAllOnClose THEN "recv"
          ELSE "flush")
    ELSE IF ~l.outValueOK THEN "recv"
    ELSE "trySend"

\* A worker that tries the input before the output.
nextOpRecvFirst(l) ==
    IF ~l.inOpen
    THEN (IF ~l.outValueOK THEN "return"
          ELSE IF ~sendAllOnClose THEN "return"
          ELSE "flush")
    ELSE IF ~l.outValueOK THEN "recv"
    ELSE "tryRecv"

\* A worker that returns as soon as it has nothing to send.
nextOpReturnIdle(l) ==
    IF ~l.outValueOK THEN "return"
    ELSE IF ~l.inOpen THEN (IF ~sendAllOnClose THEN "return" ELSE "flush")
    ELSE "trySend"

\* A worker that sends what is left on a closed input whatever
\* sendAllOnClose says.
nextOpAlwaysFlush(l) ==
    IF ~l.inOpen
    THEN (IF ~l.outValueOK THEN "return" ELSE "flush")
    ELSE IF ~l.outValueOK THEN "recv"
    ELSE "trySend"

\* A worker that, not flushing, still tries the non-blocking send on a
\* closed input before it returns.
nextOpSendOnClosed(l) ==
    IF ~l.outValueOK THEN (IF ~l.inOpen THEN "return" ELSE "recv")
    ELSE IF ~l.inOpen /\ sendAllOnClose THEN "flush"
    ELSE "trySend"

\* Lines 112-128: where the iteration goes: return, the flushing send, the
\* blocking receive, or the non-blocking send.
nextOp(l) ==
    IF ~l.inOpen
    THEN (IF ~l.outValueOK THEN "return"
          ELSE IF ~sendAllOnClose THEN "return"
          ELSE "flush")
    ELSE IF ~l.outValueOK THEN "recv"
    ELSE "trySend"

\* Lines 97-128: the top of the loop, up to its first channel operation.
WorkerTop ==
    /\ running
    /\ pc = "top"
    /\ \E e \in (IF inReceived /\ inOpen /\ outValueOK THEN poolGet(q) ELSE {Nil}) :
         LET l == refill(integrate(locals, e))
         IN /\ inValue' = l.inValue
            /\ inOpen' = l.inOpen
            /\ inReceived' = l.inReceived
            /\ outValue' = l.outValue
            /\ outValueOK' = l.outValueOK
            /\ q' = l.q
            /\ pc' = nextOp(l)
    /\ UNCHANGED <<confVars, queueVars, again, inVars, outVars, producerVars, consumerVars,
                   rpc, panic>>

\* A flush that gives up a value the output cannot take at once.
WorkerFlushNonBlocking ==
    /\ running
    /\ pc = "flush"
    /\ IF outReady
       THEN outGiven(outValue)
       ELSE UNCHANGED <<outVars, consumerVars, rpc>>
    /\ outValueOK' = FALSE
    /\ pc' = "top"
    /\ UNCHANGED <<inValue, inOpen, inReceived, outValue, q>>
    /\ UNCHANGED <<confVars, queueVars, again, inVars, producerVars, panic>>

\* Lines 119-121: out <- outValue after the input was closed.
WorkerFlush ==
    /\ running
    /\ pc = "flush"
    /\ outGiven(outValue)
    /\ outValueOK' = FALSE
    /\ pc' = "top"
    /\ UNCHANGED <<inValue, inOpen, inReceived, outValue, q>>
    /\ UNCHANGED <<confVars, queueVars, again, inVars, producerVars, panic>>

\* Lines 124-126: inValue, inOpen = <-in.
WorkerRecv ==
    /\ running
    /\ pc = "recv"
    /\ inTaken
    /\ inValue' = inFront.value
    /\ inOpen' = inFront.ok
    /\ inReceived' = TRUE
    /\ pc' = "top"
    /\ UNCHANGED <<outValue, outValueOK, q>>
    /\ UNCHANGED <<confVars, queueVars, again, outVars, consumerVars, rpc, panic>>

\* A worker that passes on to the non-blocking receive without trying the
\* send; the blocking select sends.
WorkerTrySendSkipped ==
    /\ running
    /\ pc = "trySend"
    /\ pc' = "tryRecv"
    /\ UNCHANGED <<outValue, outValueOK, outVars, consumerVars, rpc>>
    /\ UNCHANGED <<inValue, inOpen, inReceived, q>>
    /\ UNCHANGED <<confVars, queueVars, again, inVars, producerVars, panic>>

\* Lines 128-134: the non-blocking send.
WorkerTrySend ==
    /\ running
    /\ pc = "trySend"
    /\ IF outReady
       THEN /\ outGiven(outValue)
            /\ outValue' = Zero
            /\ outValueOK' = FALSE
            /\ pc' = "top"
       ELSE /\ pc' = "tryRecv"
            /\ UNCHANGED <<outValue, outValueOK, outVars, consumerVars, rpc>>
    /\ UNCHANGED <<inValue, inOpen, inReceived, q>>
    /\ UNCHANGED <<confVars, queueVars, again, inVars, producerVars, panic>>

\* A worker that waits on the input alone when neither channel is ready.
WorkerTryRecvThenRecv ==
    /\ running
    /\ pc = "tryRecv"
    /\ IF inReady
       THEN /\ inTaken
            /\ inValue' = inFront.value
            /\ inOpen' = inFront.ok
            /\ inReceived' = TRUE
            /\ pc' = "top"
       ELSE /\ pc' = "recv"
            /\ UNCHANGED <<inValue, inOpen, inReceived, inVars, producerVars>>
    /\ UNCHANGED <<outValue, outValueOK, q>>
    /\ UNCHANGED <<confVars, queueVars, again, outVars, consumerVars, rpc, panic>>

\* Lines 135-140: the non-blocking receive.
WorkerTryRecv ==
    /\ running
    /\ pc = "tryRecv"
    /\ IF inReady
       THEN /\ inTaken
            /\ inValue' = inFront.value
            /\ inOpen' = inFront.ok
            /\ inReceived' = TRUE
            /\ pc' = "top"
       ELSE /\ pc' = "select"
            /\ UNCHANGED <<inValue, inOpen, inReceived, inVars, producerVars>>
    /\ UNCHANGED <<outValue, outValueOK, q>>
    /\ UNCHANGED <<confVars, queueVars, again, outVars, consumerVars, rpc, panic>>

\* Lines 141-147: the blocking select, case inValue, inOpen = <-in.
WorkerSelectRecv ==
    /\ running
    /\ pc = "select"
    /\ inTaken
    /\ inValue' = inFront.value
    /\ inOpen' = inFront.ok
    /\ inReceived' = TRUE
    /\ pc' = "top"
    /\ UNCHANGED <<outValue, outValueOK, q>>
    /\ UNCHANGED <<confVars, queueVars, again, outVars, consumerVars, rpc, panic>>

\* A select whose send leaves the output value in place.
WorkerSelectSendKeeps ==
    /\ running
    /\ pc = "select"
    /\ outGiven(outValue)
    /\ pc' = "top"
    /\ UNCHANGED <<inValue, inOpen, inReceived, outValue, outValueOK, q>>
    /\ UNCHANGED <<confVars, queueVars, again, inVars, producerVars, panic>>

\* Lines 141-147: the blocking select, case out <- outValue.
WorkerSelectSend ==
    /\ running
    /\ pc = "select"
    /\ outGiven(outValue)
    /\ outValue' = Zero
    /\ outValueOK' = FALSE
    /\ pc' = "top"
    /\ UNCHANGED <<inValue, inOpen, inReceived, q>>
    /\ UNCHANGED <<confVars, queueVars, again, inVars, producerVars, panic>>

\* A close(c.out) made inside the loop: the worker goes on after it.
WorkerCloseInLoop ==
    /\ running
    /\ pc = "return"
    /\ outClosed' = TRUE
    /\ recvq' = <<>>
    /\ cpc' = (IF cpc = "recv" THEN "closed" ELSE cpc)
    /\ rpc' = (IF rpc = "parked" THEN "done" ELSE rpc)
    /\ panic' = (IF outClosed THEN "close of closed channel" ELSE panic)
    /\ pc' = "top"
    /\ UNCHANGED <<inValue, inOpen, inReceived, outValue, outValueOK, q>>
    /\ UNCHANGED <<confVars, queueVars, again, inVars, outBuf, producerVars, received>>

\* A worker.run that returns without the deferred close(c.out).
WorkerCloseOmitted ==
    /\ running
    /\ pc = "return"
    /\ pc' = "done"
    /\ UNCHANGED <<inValue, inOpen, inReceived, outValue, outValueOK, q>>
    /\ UNCHANGED <<confVars, queueVars, again, inVars, outVars, producerVars, consumerVars,
                   rpc, panic>>

\* New, line 46: defer close(c.out), run when worker.run returns; it wakes
\* every receiver parked on c.out, and panics on a closed channel.
WorkerClose ==
    /\ running
    /\ pc = "return"
    /\ outClosed' = TRUE
    /\ recvq' = <<>>
    /\ cpc' = (IF cpc = "recv" THEN "closed" ELSE cpc)
    /\ rpc' = (IF rpc = "parked" THEN "done" ELSE rpc)
    /\ panic' = (IF outClosed THEN "close of closed channel" ELSE panic)
    /\ pc' = "done"
    /\ UNCHANGED <<inValue, inOpen, inReceived, outValue, outValueOK, q>>
    /\ UNCHANGED <<confVars, queueVars, again, inVars, outBuf, producerVars, received>>

Worker ==
    \/ WorkerTop
    \/ WorkerFlush
    \/ WorkerRecv
    \/ WorkerTrySend
    \/ WorkerTryRecv
    \/ WorkerSelectRecv
    \/ WorkerSelectSend
    \/ WorkerClose

----------------------------------------------------------------------------
(* the callers *)

\* in <- v for the next value v: buffered if there is room, parked otherwise;
\* a send on a closed channel panics.
Send ==
    /\ running
    /\ ppc = "idle"
    /\ nsent < N
    /\ IF inClosed
       THEN /\ panic' = "send on closed channel"
            /\ UNCHANGED <<inBuf, producerVars>>
       ELSE /\ nsent' = nsent + 1
            /\ IF Len(inBuf) < buffer
               THEN /\ inBuf' = Append(inBuf, nsent + 1)
                    /\ accepted' = Append(accepted, nsent + 1)
                    /\ UNCHANGED ppc
               ELSE /\ ppc' = "sending"
                    /\ UNCHANGED <<inBuf, accepted>>
            /\ UNCHANGED panic
    /\ UNCHANGED <<confVars, queueVars, again, inClosed, outVars, workerVars, consumerVars, rpc>>

\* close(in) once the N values were sent; closing a closed channel panics.
Close ==
    /\ running
    /\ ppc = "idle"
    /\ nsent = N
    /\ IF inClosed
       THEN /\ panic' = "close of closed channel"
            /\ UNCHANGED <<inClosed, ppc>>
       ELSE /\ inClosed' = TRUE
            /\ ppc' = "closed"
            /\ UNCHANGED panic
    /\ UNCHANGED <<confVars, queueVars, again, inBuf, outVars, workerVars, nsent, accepted,
                   consumerVars, rpc>>

\* <-out: a buffered value, the closed indication, or parked.  The single
\* caller thread of the tests starts to receive only after its close(in).
Receive ==
    /\ running
    /\ cpc = "idle"
    /\ single => ppc = "closed"
    /\ IF Len(outBuf) > 0
       THEN /\ received' = Append(received, Head(outBuf))
            /\ outBuf' = Tail(outBuf)
            /\ UNCHANGED <<cpc, recvq>>
       ELSE IF outClosed
       THEN /\ cpc' = "closed"
            /\ UNCHANGED <<received, outBuf, recvq>>
       ELSE /\ cpc' = "recv"
            /\ recvq' = Append(recvq, "consumer")
            /\ UNCHANGED <<received, outBuf>>
    /\ UNCHANGED <<confVars, queueVars, again, inVars, outClosed, workerVars, producerVars,
                   rpc, panic>>

----------------------------------------------------------------------------
(* Channel.release *)

\* The release function New hands out is called (sync.OnceFunc: once).  The
\* tests call it from tb.Cleanup, after the test's thread has drained c.out.
ReleaseCall ==
    /\ running
    /\ rpc = "none"
    /\ single => cpc = "closed"
    /\ rpc' = "drainIn"
    /\ UNCHANGED <<confVars, queueVars, again, inVars, outVars, workerVars, producerVars,
                   consumerVars, panic>>

\* A release that goes on to drain c.out without close(c.in).
ReleaseDrainInNoClose ==
    /\ running
    /\ rpc = "drainIn"
    /\ IF inReady
       THEN /\ inTaken
            /\ rpc' = (IF inFront.ok THEN "drainIn" ELSE "drainOut")
       ELSE /\ rpc' = "drainOut"
            /\ UNCHANGED <<inVars, producerVars>>
    /\ UNCHANGED <<confVars, queueVars, again, outVars, workerVars, consumerVars, panic>>

\* A release that closes c.in whenever its receive yields no value, also
\* when that is because c.in is closed.
ReleaseDrainInClosesClosed ==
    /\ running
    /\ rpc = "drainIn"
    /\ IF inReady /\ inFront.ok
       THEN /\ inTaken
            /\ rpc' = "drainIn"
       ELSE /\ rpc' = "closeIn"
            /\ UNCHANGED <<inVars, producerVars>>
    /\ UNCHANGED <<confVars, queueVars, again, outVars, workerVars, consumerVars, panic>>

\* Lines 64-70: the non-blocking receive on c.in; a value is discarded, the
\* closed indication ends the loop, default goes on to close(c.in).
ReleaseDrainIn ==
    /\ running
    /\ rpc = "drainIn"
    /\ IF inReady
       THEN /\ inTaken
            /\ rpc' = (IF inFront.ok THEN "drainIn" ELSE "drainOut")
       ELSE /\ rpc' = "closeIn"
            /\ UNCHANGED <<inVars, producerVars>>
    /\ UNCHANGED <<confVars, queueVars, again, outVars, workerVars, consumerVars, panic>>

\* Line 68: close(c.in); it panics on a closed channel, and a sender parked
\* on the channel panics.
ReleaseCloseIn ==
    /\ running
    /\ rpc = "closeIn"
    /\ IF inClosed
       THEN /\ panic' = "close of closed channel"
            /\ UNCHANGED <<inClosed, rpc>>
       ELSE /\ inClosed' = TRUE
            /\ rpc' = "drainIn"
            /\ panic' = (IF ppc = "sending" THEN "send on closed channel" ELSE panic)
    /\ UNCHANGED <<confVars, queueVars, again, inBuf, outVars, workerVars, producerVars, consumerVars>>

\* Lines 71-72: for range c.out: a value is discarded, closed ends the loop.
ReleaseDrainOut ==
    /\ running
    /\ rpc = "drainOut"
    /\ IF Len(outBuf) > 0
       THEN /\ outBuf' = Tail(outBuf)
            /\ UNCHANGED <<rpc, recvq>>
       ELSE IF outClosed
       THEN /\ rpc' = "done"
            /\ UNCHANGED <<outBuf, recvq>>
       ELSE /\ rpc' = "parked"
            /\ recvq' = Append(recvq, "release")
            /\ UNCHANGED outBuf
    /\ UNCHANGED <<confVars, queueVars, again, inVars, outClosed, workerVars, producerVars,
                   consumerVars, panic>>

\* A release that is not guarded by sync.OnceFunc: a call made after the
\* first one has returned runs Channel.release again.
ReleaseAgainRuns ==
    /\ running
    /\ rpc = "done"
    /\ again < MaxAgain
    /\ again' = again + 1
    /\ rpc' = "drainIn"
    /\ UNCHANGED <<confVars, queueVars, inVars, outVars, workerVars, producerVars,
                   consumerVars, panic>>

\* New, lines 36-40: the release function is sync.OnceFunc(c.release); a
\* call made after the first one, during it or after it, does not run
\* c.release.
ReleaseAgain ==
    /\ running
    /\ rpc # "none"
    /\ again < MaxAgain
    /\ again' = again + 1
    /\ UNCHANGED <<confVars, queueVars, inVars, outVars, workerVars, producerVars,
                   consumerVars, rpc, panic>>

\* The steps of Channel.release once it is called.
ReleaseRun ==
    \/ ReleaseDrainIn
    \/ ReleaseCloseIn
    \/ ReleaseDrainOut

Release ==
    \/ ReleaseCall
    \/ ReleaseDrainIn
    \/ ReleaseCloseIn
    \/ ReleaseDrainOut

Next ==
    \/ Worker
    \/ Send
    \/ Close
    \/ Receive
    \/ Release

Spec == Init /\ [][Next]_vars

\* The steps of a test: by then c.in is closed, release never closes it.
NextTests ==
    \/ Worker
    \/ Send
    \/ Close
    \/ Receive
    \/ ReleaseCall
    \/ ReleaseDrainIn
    \/ ReleaseDrainOut

\* The same program under the callers of the tests.
SpecTests == InitTests /\ [][NextTests]_vars

\* Callers that keep the precondition of release: nothing is sent to c.in,
\* and c.in is not closed, while release runs or after it; sends and a
\* close(in) made before it are complete.
SendBefore == rpc = "none" /\ Send
CloseBefore == rpc = "none" /\ Close
ReleaseCallAfter == ppc # "sending" /\ ReleaseCall

\* One call of release.
NextReleaseOnce ==
    \/ Worker
    \/ SendBefore
    \/ CloseBefore
    \/ Receive
    \/ ReleaseCallAfter
    \/ ReleaseRun

\* Further calls of release beside the first.
NextRelease ==
    \/ NextReleaseOnce
    \/ ReleaseAgain

\* The program under callers that keep the precondition of release.
SpecRelease == Init /\ [][NextRelease]_vars

\* One call of release; the worker and the goroutine that runs release are
\* scheduled.
FairRelease ==
    Init /\ [][NextReleaseOnce]_vars /\ WF_vars(Worker) /\ WF_vars(ReleaseRun)

\* One call of release; only the worker is scheduled.
FairWorkerRelease == Init /\ [][NextReleaseOnce]_vars /\ WF_vars(Worker)

\* One call of release; the worker is scheduled and the consumer goes on
\* receiving.
FairConsumerRelease ==
    Init /\ [][NextReleaseOnce]_vars /\ WF_vars(Worker) /\ WF_vars(Receive)

\* The Go scheduler runs a goroutine that can proceed: the worker.
FairWorker == Spec /\ WF_vars(Worker)

\* The worker, and a consumer that keeps receiving.
FairWorkerConsumer == Spec /\ WF_vars(Worker) /\ WF_vars(Receive)

----------------------------------------------------------------------------
(* Channel.run of unlimited_channel.go: every value goes through c.queue *)

\* c.queue of Channel.run, as the values it holds, seen through worker.run:
\* the output value, then the queue, then the value received and not yet
\* integrated; nothing once the input was seen closed (the deferred
\* c.queue.reset()).
cQueue ==
    IF ~inOpen THEN <<>>
    ELSE (IF outValueOK THEN <<outValue>> ELSE <<>>)
         \o contents(q)
         \o (IF inReceived THEN <<inValue>> ELSE <<>>)

\* The position of Channel.run seen through worker.run: in its loop,
\* returning (the deferred close(c.out) is still to run), or done.
runPc == IF pc = "done" THEN "done" ELSE IF ~inOpen THEN "return" ELSE "loop"

\* Lines 187 and 193-198: inValue, okInValue = <-c.in, in the select or
\* alone, then c.queue.enqueue(inValue), or return and c.queue.reset().
ChannelRunRecv ==
    /\ runPc = "loop"
    /\ inTaken
    /\ IF inFront.ok
       THEN cQueue' = Append(cQueue, inFront.value) /\ runPc' = "loop"
       ELSE cQueue' = <<>> /\ runPc' = "return"
    /\ UNCHANGED <<outVars, consumerVars, rpc, panic>>

\* Lines 182-191: c.queue.pick() found outValue, the select sends it on
\* c.out, then c.queue.dequeue().
ChannelRunSend ==
    /\ runPc = "loop"
    /\ cQueue # <<>>
    /\ outGiven(Head(cQueue))
    /\ cQueue' = Tail(cQueue)
    /\ runPc' = "loop"
    /\ UNCHANGED <<inVars, producerVars, panic>>

\* Line 179: defer close(c.out), run at the return of line 196.
ChannelRunClose ==
    /\ runPc = "return"
    /\ outClosed' = TRUE
    /\ recvq' = <<>>
    /\ cpc' = (IF cpc = "recv" THEN "closed" ELSE cpc)
    /\ rpc' = (IF rpc = "parked" THEN "done" ELSE rpc)
    /\ panic' = (IF outClosed THEN "close of closed channel" ELSE panic)
    /\ runPc' = "done"
    /\ cQueue' = cQueue
    /\ UNCHANGED <<inVars, outBuf, producerVars, received>>

\* A step of Channel.run.
ChannelRun ==
    \/ ChannelRunRecv
    \/ ChannelRunSend
    \/ ChannelRunClose

----------------------------------------------------------------------------
(* the queue used alone *)

\* Every variable but the queue's.
restVars == <<confVars, inVars, outVars, pc, inValue, inOpen, inReceived,
              outValue, outValueOK, producerVars, consumerVars, rpc, again,
              panic>>

\* The nodes the queue or its pool refers to.
liveNodes(qq) == {chain(qq)[i] : i \in 1..Len(chain(qq))} \cup qq.pool

\* q.enqueue(value): q.elemPool.Get() returns a pooled node or misses; a
\* miss allocates, while fewer than MaxQueue + 1 nodes are alive.
QueueEnqueue ==
    /\ Len(ref) < MaxQueue
    /\ \E value \in 1..MaxValue, e \in poolGet(q) :
          /\ e = Nil => Cardinality(liveNodes(q)) <= MaxQueue
          /\ q' = enqueue(q, value, e)
          /\ ref' = Append(ref, value)
          /\ ret' = [op |-> "enqueue", value |-> Zero, ok |-> FALSE,
                     newElem |-> e]
    /\ UNCHANGED restVars

\* value, ok := q.dequeue()
QueueDequeue ==
    /\ q' = dequeue(q).q
    /\ ref' = (IF ref = <<>> THEN ref ELSE Tail(ref))
    /\ ret' = [op |-> "dequeue", value |-> dequeue(q).value,
               ok |-> dequeue(q).ok, newElem |-> Nil]
    /\ UNCHANGED restVars

\* value, ok := q.pick()
QueuePick ==
    /\ ret' = [op |-> "pick", value |-> pick(q).value, ok |-> pick(q).ok,
               newElem |-> Nil]
    /\ UNCHANGED <<q, ref>>
    /\ UNCHANGED restVars

\* The heap once the nodes nothing refers to are collected.
collected(qq) ==
    [qq EXCEPT !.elem = [n \in NodeIds |->
                            IF n \in liveNodes(qq) THEN qq.elem[n]
                            ELSE queueElement]]

\* q.reset(); the nodes it drops are garbage.
QueueReset ==
    /\ q' = collected(reset(q))
    /\ ref' = <<>>
    /\ ret' = [op |-> "reset", value |-> Zero, ok |-> FALSE, newElem |-> Nil]
    /\ UNCHANGED restVars

NextQueue ==
    \/ QueueEnqueue
    \/ QueueDequeue
    \/ QueuePick
    \/ QueueReset

\* An empty queue of a new worker.
InitQueue == InitWith(0, FALSE, 0, FALSE)

\* Any sequence of operations on a queue, from the empty one.
SpecQueue == InitQueue /\ [][NextQueue]_vars

----------------------------------------------------------------------------
(* properties *)

\* s is a prefix of t.
isPrefix(s, t) == Len(s) <= Len(t) /\ \A i \in 1..Len(s) : s[i] = t[i]

\* C1: with sendAllOnClose and release never called, a consumer that sees
\* the output closed has received the N values the caller sent before its
\* close(in), each once and in the order sent.
C1_FlushDeliversAll ==
    (sendAllOnClose /\ rpc = "none" /\ cpc = "closed")
        => (ppc = "closed" /\ Len(accepted) = N /\ received = accepted)

\* C1 witness: an unbuffered channel that delivered MaxSend values, closed.
C1_Witness ==
    /\ sendAllOnClose /\ rpc = "none" /\ cpc = "closed"
    /\ buffer = 0 /\ N = MaxSend /\ Len(received) = MaxSend

\* C2: with release never called, what the consumer has received is always
\* a prefix of what the input accepted, under either flush policy; so when
\* the output is seen closed the count received is between 0 and N.
C2_ReceivedPrefixOfAccepted ==
    rpc = "none"
        => /\ isPrefix(received, accepted)
           /\ Len(accepted) <= N
           /\ cpc = "closed" => Len(received) \in 0..N

\* C2 witness: without flushing, the output is seen closed after some but
\* not all of the accepted values were received.
C2_Witness ==
    /\ ~sendAllOnClose /\ rpc = "none" /\ cpc = "closed"
    /\ Len(received) > 0 /\ Len(received) < Len(accepted)

\* C3: a caller parked in a send on the open input is released (the send
\* completes), given only that the worker is scheduled: no receive on the
\* output is needed, whatever the queue already holds.
C3_SendCompletes == (ppc = "sending") ~> (ppc = "idle" \/ inClosed)

\* C3 witness: MaxSend sends on an unbuffered input have completed, the
\* values past the first are queued, and the consumer never received.
C3_Witness ==
    /\ Len(accepted) = MaxSend /\ buffer = 0 /\ ppc = "idle" /\ ~inClosed
    /\ cpc = "idle" /\ received = <<>> /\ rpc = "none"
    /\ Len(contents(q)) = MaxSend - 1

\* C4: with sendAllOnClose, once the caller has closed the input (release
\* not called by then), a scheduled worker and a consumer that keeps
\* receiving lead to the worker's return and the output seen closed.
C4_FlushTerminates ==
    (sendAllOnClose /\ ppc = "closed" /\ rpc = "none")
        ~> (pc = "done" /\ cpc = "closed")

\* C4 witness: the worker has returned after flushing MaxSend values through
\* buffered endpoints and the consumer has seen the output closed.
C4_Witness ==
    /\ sendAllOnClose /\ rpc = "none" /\ pc = "done" /\ cpc = "closed"
    /\ buffer = MaxBuffer /\ N = MaxSend /\ received = accepted
    /\ Len(received) = MaxSend

\* C5: without flushing, on an unbuffered channel, a single thread that
\* sends TestCount values, closes the input and then drains the output
\* receives fewer than TestCount values (TestCloseRemaining).
C5_CloseRemainingLess ==
    (single /\ ~sendAllOnClose /\ buffer = 0 /\ N = TestCount
        /\ rpc = "none" /\ cpc = "closed")
        => Len(received) < TestCount

\* C6: a negative buffer option gives capacity 0, and then, without
\* flushing, a single thread that sends one value, closes the input and
\* drains the output receives no value (TestWithBufferNegative).
C6_NegativeBufferReceivesNone ==
    /\ oBuffer < 0 => buffer = 0
    /\ (single /\ ~sendAllOnClose /\ oBuffer < 0 /\ N = 1
           /\ rpc = "none" /\ cpc = "closed")
           => Len(received) = 0

\* C7: without flushing, a single thread that sends N <= cap(in) values,
\* closes the input and then drains the output receives all N of them, in
\* order, before it sees the output closed (TestWithBuffer).
C7_WithinBufferAllDelivered ==
    (single /\ ~sendAllOnClose /\ N <= buffer /\ rpc = "none" /\ cpc = "closed")
        => (Len(received) = N /\ received = accepted)

\* C7 witness: MaxBuffer values through a channel of capacity MaxBuffer.
C7_Witness ==
    /\ single /\ ~sendAllOnClose /\ rpc = "none" /\ cpc = "closed"
    /\ buffer = MaxBuffer /\ N = MaxBuffer /\ Len(received) = MaxBuffer

\* C8: with no value sent, under either flush policy, nothing is ever
\* received or buffered on the output, and the caller's close(in) (release
\* not called by then) leads to the worker's return and the output closed.
C8_EmptyClose ==
    /\ [](N = 0 => (received = <<>> /\ outBuf = <<>>))
    /\ (N = 0 /\ ppc = "closed" /\ rpc = "none") ~> (pc = "done" /\ outClosed)

\* C8 witness: nothing sent, the worker returned, the output seen closed.
C8_Witness ==
    /\ N = 0 /\ ppc = "closed" /\ pc = "done" /\ outClosed
    /\ cpc = "closed" /\ received = <<>>

\* C9: the output is closed by the worker's return alone, once, and from
\* then on the worker takes no step: it neither sends nor receives.
C9_CloseOnceAndLast ==
    [][/\ (outClosed' /\ ~outClosed) => (pc = "return" /\ pc' = "done")
       /\ outClosed => (outClosed' /\ pc = "done" /\ UNCHANGED workerVars)
       /\ pc = "done" => outClosed]_vars

\* C9 witness: the worker has closed the output and stopped while values
\* it never sent are still in its hands.
C9_Witness ==
    /\ outClosed /\ pc = "done" /\ outValueOK /\ Len(contents(q)) > 0

\* C10: while the input is not closed the output is not closed and the
\* worker has not returned (it returns only after a receive reported the
\* input closed); once everything accepted was received, the output holds
\* nothing to receive: no buffered value, no sender, not closed.
C10_OpenInputOpenOutput ==
    /\ ~inClosed => (~outClosed /\ inOpen /\ pc \notin {"return", "done"})
    /\ pc \in {"return", "done"} => (~inOpen /\ inClosed)
    /\ (~inClosed /\ received = accepted)
           => (outBuf = <<>> /\ ~outValueOK /\ ~outClosed)

\* C10 witness: MaxSend values went through, the input is still open, the
\* worker waits for input and the consumer is parked on the open output.
C10_Witness ==
    /\ ~inClosed /\ N = MaxSend /\ received = accepted /\ Len(received) = MaxSend
    /\ pc = "recv" /\ cpc = "recv" /\ ~outClosed

\* C11: under callers that send nothing while release runs, a called
\* release returns, given that it and the worker are scheduled, whatever
\* is buffered and under either flush policy; and when it has returned the
\* input is closed, the worker has returned and the output is closed.
C11_ReleaseReturns ==
    /\ [](rpc = "done" => (inClosed /\ pc = "done" /\ outClosed))
    /\ (rpc # "none") ~> (rpc = "done")

\* C11 witness: release has returned after it closed the input itself, with
\* flushing on and MaxSend accepted values of which the consumer got none.
C11_Witness ==
    /\ rpc = "done" /\ sendAllOnClose /\ ppc = "idle"
    /\ Len(accepted) = MaxSend /\ received = <<>>

\* C12: a call of the release function after the first one changes nothing:
\* it closes nothing, receives nothing, does not panic, and the sequence in
\* Channel.release is not started again once it is done.
C12_ReleaseOnce ==
    [][/\ again' # again
           => (UNCHANGED <<inVars, outVars, workerVars, producerVars,
                           consumerVars, rpc>> /\ panic' = "none")
       /\ rpc = "done" => rpc' = "done"]_vars

\* C12 witness: MaxAgain further calls were made while the first one is
\* still parked on the output.
C12_Witness == again = MaxAgain /\ rpc = "parked" /\ panic = "none"

\* C13: when the caller has closed the input before release is called,
\* release does not reach its close(c.in), no panic occurs, and release
\* returns (the worker and release being scheduled).
C13_ReleaseAfterClose ==
    /\ [](ppc = "closed" => (inClosed /\ rpc # "closeIn" /\ panic = "none"))
    /\ (ppc = "closed" /\ rpc # "none") ~> (rpc = "done")

\* C13 witness: release runs on an input the caller closed with values
\* still buffered in it.
C13_Witness ==
    /\ ppc = "closed" /\ rpc = "drainIn" /\ Len(inBuf) > 0 /\ inClosed

\* C14: without flushing, once the input is closed the worker returns and
\* the output is closed, given only that the worker is scheduled: no
\* receive on the output is needed, whatever the slot, the queue and the
\* two channels hold.
C14_NoFlushWorkerReturns ==
    (~sendAllOnClose /\ inClosed) ~> (pc = "done" /\ outClosed)

\* C14 witness: the worker has returned without flushing, the consumer has
\* received nothing, and the slot and the queue still hold values.
C14_Witness ==
    /\ ~sendAllOnClose /\ pc = "done" /\ outClosed
    /\ received = <<>> /\ cpc = "idle" /\ rpc = "none"
    /\ outValueOK /\ q.head # Nil

\* C15: with flushing, a worker whose flushing send cannot proceed stays in
\* that send, keeping its value and its queue, with the output open and
\* no panic, over every step that is not a receive on the output.
C15_FlushStaysBlocked ==
    [][(/\ sendAllOnClose /\ pc = "flush" /\ ~outReady
        /\ outBuf' = outBuf /\ recvq' = recvq)
       => (/\ pc' = "flush" /\ ~outReady'
           /\ outValueOK' /\ outValue' = outValue /\ q' = q
           /\ ~outClosed' /\ panic' = "none")]_vars

\* C15 witness: the input is closed, the output buffer is full, nobody
\* receives, and the worker is in its flushing send with the queue not
\* empty.
C15_Witness ==
    /\ sendAllOnClose /\ pc = "flush" /\ ~outReady /\ inClosed
    /\ buffer > 0 /\ Len(outBuf) = buffer /\ q.head # Nil
    /\ cpc = "idle" /\ rpc = "none"

\* C16: with the worker and the consumer scheduled, the k-th accepted value
\* is eventually received by the consumer, unless the input gets closed or
\* release is called.
C16_DeliveredWhileOpen ==
    \A k \in 1..MaxSend :
        (Len(accepted) >= k /\ rpc = "none")
            ~> (Len(received) >= k \/ inClosed \/ rpc # "none")

\* C16 witness: an unbuffered output, the worker already in its blocking
\* select with a value to send, and the consumer arriving only then.
C16_Witness ==
    /\ buffer = 0 /\ pc = "select" /\ outValueOK /\ cpc = "recv"
    /\ ~inClosed /\ rpc = "none" /\ Len(accepted) > Len(received)

\* C17: while the worker has not observed the input closed and release
\* was not called, the accepted values are exactly, in order, those the
\* consumer received, those buffered in the output, the output value, the
\* queue, the value received and not yet integrated, and those buffered
\* in the input.
C17_Conservation ==
    (inOpen /\ rpc = "none")
        => accepted = received \o outBuf
                      \o (IF outValueOK THEN <<outValue>> ELSE <<>>)
                      \o contents(q)
                      \o (IF inReceived THEN <<inValue>> ELSE <<>>)
                      \o inBuf

\* C17 witness: the output value, the queue and the not yet integrated
\* value each hold one of MaxSend accepted values.
C17_Witness ==
    /\ inOpen /\ rpc = "none" /\ outValueOK /\ q.head # Nil /\ inReceived
    /\ Len(accepted) = MaxSend

\* C18: when the worker is about to integrate a value received from an
\* open input and the output value is empty, so that the value goes
\* straight into it, the queue is empty.
C18_BypassOnlyOnEmptyQueue ==
    (pc = "top" /\ inReceived /\ inOpen /\ ~outValueOK)
        => (q.head = Nil /\ contents(q) = <<>>)

\* C18 witness: such an integration after the queue has been in use (a
\* node went back to the pool) and a value has gone out.
C18_Witness ==
    /\ pc = "top" /\ inReceived /\ inOpen /\ ~outValueOK
    /\ q.pool # {} /\ Len(received) + Len(outBuf) > 0

\* C19: an iteration that has an output value and an open input goes to
\* the non-blocking send first; when the output can take the value there,
\* the worker's step is that send (the value leaves, nothing is received
\* from the input, the loop restarts); the receives of such an iteration
\* are reached only from a send that could not proceed.
C19_SendPriority ==
    [][/\ (pc = "top" /\ pc' # "top" /\ inOpen' /\ outValueOK')
           => pc' = "trySend"
       /\ (pc = "trySend" /\ pc' # "trySend" /\ outReady)
           => /\ pc' = "top" /\ ~outValueOK' /\ ~inReceived'
              /\ UNCHANGED <<inVars, producerVars, q>>
              /\ \/ outBuf' = Append(outBuf, outValue)
                 \/ received' = Append(received, outValue)
                 \/ (recvq # <<>> /\ Head(recvq) = "release")
       /\ (pc # "tryRecv" /\ pc' = "tryRecv")
           => (pc = "trySend" /\ ~outReady)
       /\ (pc # "select" /\ pc' = "select") => pc = "tryRecv"]_vars

\* C19 witness: the worker is at its non-blocking send with the output able
\* to take the value while the input has a value ready as well.
C19_Witness ==
    /\ pc = "trySend" /\ outValueOK /\ inOpen /\ ~inClosed
    /\ outReady /\ Len(inBuf) > 0 /\ rpc = "none"

\* C20: without flushing, a worker that has observed the input closed is
\* at the top of its loop, returning, or done; from then on no step sends
\* to the output (its buffer only shrinks, the consumer only gets what was
\* buffered), the output value and the queue stay as they were, and the
\* worker only goes on to return and to close the output.
C20_NoSendAfterClose ==
    /\ [](~sendAllOnClose /\ ~inOpen => pc \in {"top", "return", "done"})
    /\ [][(~sendAllOnClose /\ ~inOpen)
          => /\ ~inOpen'
             /\ UNCHANGED <<outValue, outValueOK, q>>
             /\ \/ outBuf' = outBuf
                \/ outBuf # <<>> /\ outBuf' = Tail(outBuf)
             /\ \/ received' = received
                \/ outBuf # <<>> /\ received' = Append(received, Head(outBuf))
             /\ \/ pc' = pc
                \/ pc = "top" /\ pc' = "return"
                \/ pc = "return" /\ pc' = "done" /\ outClosed']_vars

\* C20 witness: the worker returns without flushing while it holds an
\* output value and a queued one and the consumer is parked on the output.
C20_Witness ==
    /\ ~sendAllOnClose /\ ~inOpen /\ pc = "return"
    /\ outValueOK /\ q.head # Nil /\ cpc = "recv"

\* C22: over every sequence of enqueue, dequeue and pick from the empty
\* queue, the values met from head along next are the reference sequence,
\* and every dequeue and pick returns its head and true, or the zero value
\* and false when it is empty.
C22_QueueIsFifo ==
    /\ [](contents(q) = ref)
    /\ [][(ret'.op \in {"dequeue", "pick"})
          => /\ ret'.ok = (ref # <<>>)
             /\ ret'.value = (IF ref # <<>> THEN Head(ref) ELSE Zero)]_vars

\* C22 witness: an enqueue got its node from the pool and linked it behind
\* another value.
C22_Witness ==
    /\ ret.op = "enqueue" /\ ret.newElem # Nil /\ Len(ref) >= 2
    /\ contents(q) = ref

\* C23: after any sequence of enqueue, dequeue, pick and reset, head is nil
\* exactly when tail is nil and exactly when the queue holds no value, and
\* a tail that is set is the last node met from head and has no next.
C23_QueueStructure ==
    /\ (q.head = Nil) <=> (q.tail = Nil)
    /\ (q.head = Nil) <=> (ref = <<>>)
    /\ q.tail # Nil => /\ chain(q)[Len(chain(q))] = q.tail
                       /\ q.elem[q.tail].next = Nil

\* C23 witness: a dequeue has taken the last node out.
C23_Witness ==
    /\ ret.op = "dequeue" /\ ret.ok /\ q.head = Nil /\ q.tail = Nil
    /\ q.pool # {}

\* C24: every pooled node has the zero value and no next, no pooled node is
\* met from head, and the chain from head has no node twice and as many
\* nodes as the queue holds values.
C24_PoolHygiene ==
    /\ \A n \in q.pool : q.elem[n] = queueElement
    /\ q.pool \cap {chain(q)[i] : i \in 1..Len(chain(q))} = {}
    /\ Cardinality({chain(q)[i] : i \in 1..Len(chain(q))}) = Len(chain(q))
    /\ Len(chain(q)) = Len(ref)

\* C24 witness: a pooled node was reused as the tail of a full queue while
\* the pool holds another node.
C24_Witness ==
    /\ ret.op = "enqueue" /\ ret.newElem # Nil /\ ret.newElem = q.tail
    /\ q.pool # {} /\ Len(ref) = MaxQueue

\* C25: dequeue on an empty queue returns the zero value and false and
\* leaves head, tail, the pool and the nodes as they are; no panic.
C25_DequeueEmpty ==
    /\ [](q.head = Nil
          => dequeue(q) = [q |-> q, value |-> Zero, ok |-> FALSE])
    /\ [][(ret'.op = "dequeue" /\ q.head = Nil)
          => (ret'.value = Zero /\ ~ret'.ok /\ q' = q /\ panic' = "none")]_vars

\* C25 witness: a dequeue found the queue empty after it had been in use.
C25_Witness ==
    /\ ret.op = "dequeue" /\ ~ret.ok /\ ret.value = Zero
    /\ q.head = Nil /\ q.pool # {}

\* C21: without flushing, every step of worker.run is a step of
\* Channel.run, whose queue is the output value followed by the queue and
\* the value not yet integrated, or leaves Channel.run, both channels and
\* their callers as they are.
C21_RefinesChannelRun ==
    [][(~sendAllOnClose /\ workerVars' # workerVars)
       => \/ ChannelRun
          \/ UNCHANGED <<cQueue, runPc, inVars, outVars, producerVars,
                         consumerVars, rpc, panic>>]_vars

\* C21 witness: a value went out while the output value and the queue of
\* worker.run both hold values, which Channel.run holds in c.queue.
C21_Witness ==
    /\ ~sendAllOnClose /\ inOpen /\ outValueOK /\ q.head # Nil
    /\ Len(received) >= 1 /\ Len(cQueue) >= 2

====
